---- MODULE Spec2Model ----
(***************************************************************************)
(* itag2mqttd: the adapter supervisor, the per-adapter pollers, the device *)
(* registry, the per-device actor (device_manager_loop), the arbitration   *)
(* (get_best_adapter), the button monitor session (monitor_itag_button)    *)
(* and the publish requests handed to MqttClient::publish_device.          *)
(***************************************************************************)
EXTENDS Integers, Sequences, FiniteSets, TLC

(***************************************************************************)
(* Bounds of the model                                                     *)
(***************************************************************************)
\* pollers of one adapter name that may be alive at once (an old poller may
\* still run when the adapter is plugged in again)
MaxPollers == 1
\* messages the pollers may leave unprocessed in one mailbox
MaxMailbox == 1
\* granularity of the clock, in milliseconds
TickMs == 500

(***************************************************************************)
(* Program constants                                                       *)
(***************************************************************************)
\* sleep(Duration::from_millis(1000)) of the stabilization timer
StabilizeMs == 1000
\* sleep(Duration::from_secs(5)) of the connect race
ConnectTimeoutMs == 5000

AdapterNames == {"hci0", "hci1"}
\* adapter.address(): the hardware address of an adapter name
AdapterAddress(name) == IF name = "hci0" THEN "A0" ELSE "A1"
AdapterAddrs == {AdapterAddress(n) : n \in AdapterNames}
AdapterNameOf(addr) == CHOOSE n \in AdapterNames : AdapterAddress(n) = addr
DeviceAddrs == {"d1", "d2"}
\* the configurations explored: the allow-list ([bluetooth] adapters=) and the
\* devices in radio range
Configs ==
  { [bt_adapters |-> {}, nearby |-> {"d1"}],
    [bt_adapters |-> {"hci0"}, nearby |-> {"d1"}] }
\* two devices in range of the one adapter the allow-list admits
ConfigsTwo == { [bt_adapters |-> {"hci0"}, nearby |-> {"d1", "d2"}] }
NoAddr == "-"

\* bluer::Device obtained from adapter.device(device_address)
Handle(a, d) == [adapter_address |-> a, address |-> d]
NoDevice == Handle(NoAddr, NoAddr)

(***************************************************************************)
(* Signal strength reads: Result<Option<i16>>                              *)
(***************************************************************************)
RssiVals == {-70, -50}
RssiErr == [tag |-> "Err", val |-> 0]
RssiNone == [tag |-> "OkNone", val |-> 0]
RssiSome(v) == [tag |-> "OkSome", val |-> v]
NotRead == [tag |-> "NotRead", val |-> 0]
RssiReads == {RssiErr, RssiNone} \cup {RssiSome(v) : v \in RssiVals}

(***************************************************************************)
(* Device names: Result<Option<String>>, a string being a sequence of      *)
(* characters                                                              *)
(***************************************************************************)
Lower == <<"i", "t", "a", "g", "l", "e">>
Upper == <<"I", "T", "A", "G", "L", "E">>
\* u8::to_ascii_uppercase
CharUpper(c) ==
  IF \E i \in 1..Len(Lower) : Lower[i] = c
    THEN Upper[CHOOSE i \in 1..Len(Lower) : Lower[i] = c]
    ELSE c
\* str::to_ascii_uppercase
to_ascii_uppercase(s) == [i \in 1..Len(s) |-> CharUpper(s[i])]
IsWhite(c) == c \in {" ", "\t", "\n"}
RECURSIVE trim_start(_)
trim_start(s) == IF s # <<>> /\ IsWhite(Head(s)) THEN trim_start(Tail(s)) ELSE s
RECURSIVE trim_end(_)
trim_end(s) ==
  IF s # <<>> /\ IsWhite(s[Len(s)]) THEN trim_end(SubSeq(s, 1, Len(s) - 1)) ELSE s
\* str::trim
trim(s) == trim_end(trim_start(s))
\* a comparison that forgets the trim
IsITagName_NoTrim(name) == to_ascii_uppercase(name) = <<"I", "T", "A", "G">>
\* name.to_ascii_uppercase().trim() != "ITAG" (negated)
IsITagName(name) == trim(to_ascii_uppercase(name)) = <<"I", "T", "A", "G">>
DeviceNames ==
  { <<"I", "T", "A", "G">>, <<"i", "T", "A", "G">>, <<" ", "i", "t", "a", "g", "\n">>,
    <<"T", "i", "l", "e">>, <<"I", "T", "A", "G", "2">>, <<>> }
NameReads ==
  {[tag |-> "Err", name |-> <<>>], [tag |-> "OkNone", name |-> <<>>]}
    \cup {[tag |-> "OkSome", name |-> n] : n \in DeviceNames}

(***************************************************************************)
(* State                                                                   *)
(***************************************************************************)
VARIABLES
  bt_adapters,           \* Config.bt_adapters, the allow-list
  nearby,                \* the devices in radio range of the adapters
  adapter_names,         \* run_async: names enumerated at startup, not yet applied
  adapters,              \* run_async: the accepted adapter names (HashSet)
  pollers,               \* number of running poll_adapter tasks per adapter name
  actors,                \* ITagSwarmManager.actors: address -> actor id, 0 = no entry
  created,               \* number of DeviceActor::new calls per address
  actor_pc,              \* per device: "none", "spawned" (task not yet run), "loop",
                         \* "exited" (device_manager_loop returned, receiver dropped)
  mailbox,               \* per device: the actor's unbounded channel
  discovered_on_adapter, \* per device: adapter address -> device handle or NoDevice
  stabilized,            \* per device: the loop's stabilized flag
  has_button_monitor,    \* per device: the loop's has_button_monitor flag
  timer,                 \* per device: ms left of the stabilization sleep, -1 = no timer task
  sessions,              \* per device: the running tasks spawned at line 140
  published,             \* the publish_device calls of the latest step, in call order
  last_published,        \* per device: the latest publish_device call made for it
  age,                   \* per device: ms since DeviceActor::new, capped at StabilizeMs
  reported,              \* per device: adapters whose latest dispatched event was a discovery
  arb,                   \* the arbitration run by the latest step, if it ran one
  observed,              \* what the latest step received from BlueZ, if it is recorded,
                         \* and whether its task panicked at the unwrap of line 64
  device_ids,            \* two 6-byte device ids handed to publish_device
  topics                 \* per id: the two topics publish_device formats, << >> before

vars ==
  << bt_adapters, nearby, adapter_names, adapters, pollers, actors, created, actor_pc,
     mailbox, discovered_on_adapter, stabilized, has_button_monitor, timer, sessions,
     published, last_published, age, reported, arb, observed, device_ids, topics >>

hexVars == << device_ids, topics >>
supervisorVars == << bt_adapters, nearby, adapter_names, adapters, pollers >>
registryVars == << actors, created >>
loopVars == << discovered_on_adapter, stabilized, has_button_monitor >>


(***************************************************************************)
(* DeviceMessage                                                           *)
(***************************************************************************)
\* actor: the actor whose channel the message was sent on; error: for
\* ButtonMonitorExit, the way monitor_itag_button returned (the code drops it: _ =)
Msg(type, adapter_address, device, actor) ==
  [type |-> type, adapter_address |-> adapter_address, device |-> device, actor |-> actor,
   error |-> "-"]
NoMsg == Msg("-", NoAddr, NoDevice, 0)

\* no arbitration: dev is the actor's device, event the message that led to the
\* arbitration, reads the result of each rssi() read, best the adapter chosen
NoArb ==
  [dev |-> NoAddr, event |-> NoMsg, reads |-> [a \in AdapterAddrs |-> NotRead],
   best |-> NoAddr]

Keys(map) == {a \in AdapterAddrs : map[a] # NoDevice}
EmptyMap == [a \in AdapterAddrs |-> NoDevice]

Min(a, b) == IF a < b THEN a ELSE b
Max(a, b) == IF a > b THEN a ELSE b

(***************************************************************************)
(* Config::is_adapter_allowed                                              *)
(***************************************************************************)
is_adapter_allowed(adapter_name) ==
  IF Cardinality(bt_adapters) = 0 THEN TRUE ELSE adapter_name \in bt_adapters

(***************************************************************************)
(* MqttClient::publish_device: one call, and the two try_publish requests  *)
(* it makes                                                                *)
(***************************************************************************)
PublishCall(device_id, retained, is_present, is_button_clicked) ==
  [device_id |-> device_id, retained |-> retained, is_present |-> is_present,
   is_button_clicked |-> is_button_clicked]

Payload(b) == IF b THEN "1" ELSE "0"

publish_device(call) ==
  << [device_id |-> call.device_id, topic |-> "presence", retained |-> call.retained,
      payload |-> Payload(call.is_present)],
     [device_id |-> call.device_id, topic |-> "button/click", retained |-> call.retained,
      payload |-> Payload(call.is_button_clicked)] >>

RECURSIVE Requests(_)
\* the try_publish requests of a sequence of publish_device calls, in order
Requests(calls) ==
  IF calls = <<>> THEN <<>> ELSE publish_device(Head(calls)) \o Requests(Tail(calls))

\* the calls the code makes
InitialPublish(d) == PublishCall(d, TRUE, FALSE, FALSE)
\* a present record with the present and click arguments swapped
PresentPublish_Swapped(d) == PublishCall(d, FALSE, FALSE, TRUE)
\* the present record published as retained
PresentPublish_Retained(d) == PublishCall(d, TRUE, TRUE, FALSE)
PresentPublish(d) == PublishCall(d, FALSE, TRUE, FALSE)
\* a pulse that is never released
ClickPublish_PressOnly(d) == << PublishCall(d, FALSE, TRUE, TRUE) >>
\* lines 223-224: the two calls made for one button notification
ClickPublish(d) == << PublishCall(d, FALSE, TRUE, TRUE), PublishCall(d, FALSE, TRUE, FALSE) >>
\* an absent record whose presence flag is left true
AbsentPublish_AsPresent(d) == PublishCall(d, FALSE, TRUE, FALSE)
\* line 236: the absent record at loop exit
AbsentPublish(d) == PublishCall(d, FALSE, FALSE, FALSE)

NoCall == PublishCall(NoAddr, FALSE, FALSE, FALSE)

\* the latest call for d once calls have been made after `last`
RECURSIVE LastFor(_, _, _)
LastFor(d, calls, last) ==
  IF calls = <<>> THEN last
  ELSE LastFor(d, Tail(calls), IF Head(calls).device_id = d THEN Head(calls) ELSE last)

\* the step makes these publish_device calls, in this order
Publish(calls) ==
  /\ published' = calls
  /\ last_published' = [d \in DeviceAddrs |-> LastFor(d, calls, last_published[d])]

\* the step runs no arbitration
NoArbitration == arb' = NoArb

(***************************************************************************)
(* MqttClient::publish_device, lines 37-42: the topics. A string is a       *)
(* sequence of characters, a device id a sequence of IdLen bytes            *)
(***************************************************************************)
\* device_id: &[u8; 6]
IdLen == 6
HexDigits ==
  <<"0", "1", "2", "3", "4", "5", "6", "7", "8", "9", "a", "b", "c", "d", "e", "f">>
\* the x of {:02x}: the digits of n in base 16, lowercase, most significant first
RECURSIVE LowerHex(_)
LowerHex(n) ==
  IF n < 16 THEN << HexDigits[n + 1] >>
            ELSE LowerHex(n \div 16) \o << HexDigits[(n % 16) + 1] >>
\* a format that leaves out the zero flag and the width
ZeroPad_None(str, width) == str
\* the 02 of {:02x}: zeros on the left up to the width
RECURSIVE ZeroPad(_, _)
ZeroPad(str, width) == IF Len(str) < width THEN ZeroPad(<<"0">> \o str, width) ELSE str
\* format!("{:02x}", b)
FormatByte(b) == ZeroPad(LowerHex(b), 2)
\* device_id.iter().map(..).collect::<String>()
RECURSIVE Collect(_)
Collect(strs) == IF strs = <<>> THEN <<>> ELSE Head(strs) \o Collect(Tail(strs))
device_id_str(device_id) == Collect([i \in 1..Len(device_id) |-> FormatByte(device_id[i])])
\* format!("itag/{}/presence", device_id_str)
presence_topic(device_id) ==
  <<"i", "t", "a", "g", "/">> \o device_id_str(device_id)
    \o <<"/", "p", "r", "e", "s", "e", "n", "c", "e">>
\* format!("itag/{}/button/click", device_id_str)
button_topic(device_id) ==
  <<"i", "t", "a", "g", "/">> \o device_id_str(device_id)
    \o <<"/", "b", "u", "t", "t", "o", "n", "/", "c", "l", "i", "c", "k">>

\* the device ids explored: every id of the bytes 0x01 and 0x10, the ids of all
\* zeros and of all 0xff, and 1a:02:ff:00:b3:0c
ExampleId == <<26, 2, 255, 0, 179, 12>>
DeviceIds ==
  [1..IdLen -> {1, 16}] \cup {ExampleId, [i \in 1..IdLen |-> 0], [i \in 1..IdLen |-> 255]}

(***************************************************************************)
(* What a step received from BlueZ                                         *)
(***************************************************************************)
NoName == [tag |-> "NotRead", name |-> <<>>]
NoObs ==
  [kind |-> "-", adapter |-> "-", device |-> NoAddr, ok |-> TRUE, name_read |-> NoName,
   rssi_read |-> NotRead, panic |-> FALSE]
\* a button notification taken by a session of device d
ButtonObs(d) == [NoObs EXCEPT !.kind = "button", !.device = d]
\* handle_new_adapter spawned a poller after set_powered returned Ok or Err
PollerObs(adapter_name, powered_ok) ==
  [NoObs EXCEPT !.kind = "poller", !.adapter = adapter_name, !.ok = powered_ok]
\* AdapterEvent::DeviceRemoved
RemovedObs(adapter_name, d) ==
  [NoObs EXCEPT !.kind = "removed", !.adapter = adapter_name, !.device = d]
\* AdapterEvent::DeviceAdded and the results of adapter.device(), name(), rssi()
AddedObs(adapter_name, d, device_ok, name_read, rssi_read) ==
  [kind |-> "added", adapter |-> adapter_name, device |-> d, ok |-> device_ok,
   name_read |-> name_read, rssi_read |-> rssi_read, panic |-> FALSE]
NoObservation == observed' = NoObs
\* DeviceActor::send, line 64: the unwrap panics when the send failed, and the
\* task that called it ends there
Unwrap(obs, send_ok) == [obs EXCEPT !.panic = ~send_ok]
\* the step runs no arbitration, makes no publish_device call, records nothing
Quiet == NoArbitration /\ Publish(<<>>) /\ NoObservation

(***************************************************************************)
(* Init                                                                    *)
(***************************************************************************)
InitConfig(configs) ==
  /\ \E c \in configs : bt_adapters = c.bt_adapters /\ nearby = c.nearby
  /\ adapter_names \in SUBSET AdapterNames
  /\ adapters = {}
  /\ pollers = [n \in AdapterNames |-> 0]
  /\ actors = [d \in DeviceAddrs |-> 0]
  /\ created = [d \in DeviceAddrs |-> 0]
  /\ actor_pc = [d \in DeviceAddrs |-> "none"]
  /\ mailbox = [d \in DeviceAddrs |-> <<>>]
  /\ discovered_on_adapter = [d \in DeviceAddrs |-> EmptyMap]
  /\ stabilized = [d \in DeviceAddrs |-> FALSE]
  /\ has_button_monitor = [d \in DeviceAddrs |-> FALSE]
  /\ timer = [d \in DeviceAddrs |-> -1]
  /\ sessions = [d \in DeviceAddrs |-> <<>>]
  /\ published = <<>>
  /\ last_published = [d \in DeviceAddrs |-> NoCall]
  /\ age = [d \in DeviceAddrs |-> 0]
  /\ reported = [d \in DeviceAddrs |-> {}]
  /\ arb = NoArb
  /\ observed = NoObs

\* no call of publish_device is followed for its topics
NoIds == device_ids = << ExampleId, ExampleId >> /\ topics = << >>

Init == InitConfig(Configs) /\ NoIds
InitTwo == InitConfig(ConfigsTwo) /\ NoIds
\* two calls of publish_device, with any two of the ids
InitHex == InitConfig(ConfigsTwo) /\ device_ids \in DeviceIds \X DeviceIds /\ topics = << >>

(***************************************************************************)
(* Adapter supervisor: run_async, handle_new_adapter, handle_remove_adapter*)
(***************************************************************************)
\* a handle_new_adapter without the insert check of lines 118-120
Accepts_NoDedupe(adapter_name, adapter_ok, powered_ok, address_ok) ==
  /\ is_adapter_allowed(adapter_name)
  /\ adapter_ok
  /\ address_ok

\* handle_new_adapter reaches line 123 and spawns a poller: session.adapter() and
\* adapter.address() succeeded (set_powered may fail without effect) and the
\* name was not yet in the accepted set
Accepts(adapter_name, adapter_ok, powered_ok, address_ok) ==
  /\ is_adapter_allowed(adapter_name)
  /\ adapter_ok
  /\ address_ok
  /\ adapter_name \notin adapters

\* what handle_new_adapter may do with the name, over the results of its calls
AcceptOutcomes(adapter_name) ==
  {Accepts(adapter_name, adapter_ok, powered_ok, address_ok) :
     adapter_ok \in BOOLEAN, powered_ok \in BOOLEAN, address_ok \in BOOLEAN}

\* the results of set_powered after which handle_new_adapter reaches line 123
PoweredOutcomes(adapter_name) ==
  {powered_ok \in BOOLEAN : Accepts(adapter_name, TRUE, powered_ok, TRUE)}

handle_new_adapter(adapter_name, accepts) ==
  IF accepts
    THEN /\ adapters' = adapters \cup {adapter_name}
         /\ pollers' = [pollers EXCEPT ![adapter_name] = @ + 1]
         /\ observed' \in {PollerObs(adapter_name, powered_ok) :
                            powered_ok \in PoweredOutcomes(adapter_name)}
    ELSE /\ UNCHANGED << adapters, pollers >>
         /\ NoObservation

handle_remove_adapter(adapter_name) ==
  adapters' = adapters \ {adapter_name}

\* run_async, lines 54-56: apply the adapters enumerated at startup
StartupAdapter ==
  \E name \in adapter_names, accepts \in BOOLEAN :
    /\ accepts \in AcceptOutcomes(name)
    /\ adapter_names' = adapter_names \ {name}
    /\ handle_new_adapter(name, accepts)
    /\ NoArbitration
    /\ Publish(<<>>)
    /\ UNCHANGED << hexVars, bt_adapters, nearby, registryVars, actor_pc, mailbox, loopVars, timer,
                    sessions, age, reported >>

\* run_async, lines 66-69: SessionEvent::AdapterAdded
AdapterAdded ==
  \E name \in AdapterNames, accepts \in BOOLEAN :
    /\ adapter_names = {}
    /\ accepts => pollers[name] < MaxPollers
    /\ accepts \in AcceptOutcomes(name)
    /\ handle_new_adapter(name, accepts)
    /\ NoArbitration
    /\ Publish(<<>>)
    /\ UNCHANGED << hexVars, bt_adapters, nearby, adapter_names, registryVars, actor_pc, mailbox,
                    loopVars, timer, sessions, age, reported >>

\* run_async, lines 70-72: SessionEvent::AdapterRemoved
AdapterRemoved ==
  \E name \in AdapterNames :
    /\ adapter_names = {}
    /\ handle_remove_adapter(name)
    /\ Quiet
    /\ UNCHANGED << hexVars, bt_adapters, nearby, adapter_names, pollers, registryVars, actor_pc,
                    mailbox, loopVars, timer, sessions, age, reported >>

\* poll_adapter returns: discover_devices_with_changes failed, or its stream ended
PollerExit ==
  \E name \in AdapterNames :
    /\ pollers[name] > 0
    /\ pollers' = [pollers EXCEPT ![name] = @ - 1]
    /\ Quiet
    /\ UNCHANGED << hexVars, bt_adapters, nearby, adapter_names, adapters, registryVars, actor_pc,
                    mailbox, loopVars, timer, sessions, age, reported >>

(***************************************************************************)
(* Device registry and DeviceActor::new                                    *)
(***************************************************************************)
\* a lookup that misses the registered actor
RegistryGet_AlwaysNone(d) == 0

\* actors.get(&device_address), under the registry lock: 0 is None
RegistryGet(d) == actors[d]

\* DeviceActor::send: the message is pushed on the actor's channel
Send(box, message) == Append(box, message)

\* the Arc<DeviceActor> clones alive, each of which keeps the channel's one sender
\* alive: the registry entry (itag_swarm_manager.rs line 250), the `actor` of
\* device_manager_loop (line 73), the clone of the timer task (line 87) and the
\* clone of every session task (line 137)
ActorRefs(d) ==
  (IF actors[d] # 0 THEN 1 ELSE 0) + (IF actor_pc[d] \in {"spawned", "loop"} THEN 1 ELSE 0)
    + (IF timer[d] >= 0 THEN 1 ELSE 0) + Len(sessions[d])

\* a recv that takes an empty channel for a closed one
Recv_ClosedWhenEmpty(box, refs) == IF box # <<>> THEN "Some" ELSE "None"

\* line 94, receiver.recv().await: the next message; None once the channel is
\* empty and every sender is dropped; else the loop keeps waiting
Recv(box, refs) == IF box # <<>> THEN "Some" ELSE IF refs = 0 THEN "None" ELSE "Pending"

\* the receiver is a local of device_manager_loop: it is dropped, and the channel
\* closed, when the loop returns
Closed(d) == actor_pc[d] = "exited"

\* line 64, sender.send(message): Err once the channel is closed
SendOk(d) == ~Closed(d)

\* on_device_lost: a loss for an address with no actor is a no-op
on_device_lost(adapter_address, d) ==
  /\ IF RegistryGet(d) # 0
       THEN /\ mailbox' = IF SendOk(d)
                            THEN [mailbox EXCEPT ![d] =
                                    Send(@, Msg("DeviceLost", adapter_address, NoDevice,
                                                RegistryGet(d)))]
                            ELSE mailbox
            /\ reported' = [reported EXCEPT ![d] = @ \ {adapter_address}]
       ELSE UNCHANGED << mailbox, reported >>
  /\ UNCHANGED << registryVars, actor_pc, age >>

\* on_device_discovered, lines 244-254: look the actor up or create and register
\* it, then send DeviceDiscovered; DeviceActor::new makes the channel and spawns
\* device_manager_loop
get_or_create(adapter_address, d) ==
  LET message(id) == Msg("DeviceDiscovered", adapter_address, Handle(adapter_address, d), id)
  IN  /\ IF RegistryGet(d) # 0
           THEN /\ mailbox' = IF SendOk(d)
                                THEN [mailbox EXCEPT ![d] = Send(@, message(RegistryGet(d)))]
                                ELSE mailbox
                /\ UNCHANGED << registryVars, actor_pc, age >>
           ELSE /\ created' = [created EXCEPT ![d] = @ + 1]
                /\ actors' = [actors EXCEPT ![d] = created'[d]]
                /\ actor_pc' = [actor_pc EXCEPT ![d] = "spawned"]
                /\ age' = [age EXCEPT ![d] = 0]
                /\ mailbox' = [mailbox EXCEPT ![d] = Send(<<>>, message(created'[d]))]
      /\ reported' = [reported EXCEPT ![d] = @ \cup {adapter_address}]

\* on_device_discovered, lines 210-242: what the validation decides
on_device_discovered(name_read, rssi_read) ==
  CASE name_read.tag = "Err" -> "lost"
    [] name_read.tag = "OkNone" -> "ignore"
    [] name_read.tag = "OkSome" /\ ~IsITagName(name_read.name) -> "ignore"
    [] OTHER -> IF rssi_read.tag = "OkSome" THEN "discovered" ELSE "lost"

\* handle_device_updated: adapter.device() fails -> loss; else on_device_discovered
handle_device_updated(device_ok, name_read, rssi_read) ==
  IF device_ok THEN on_device_discovered(name_read, rssi_read) ELSE "lost"

\* what handle_device_updated may decide, over the results of its reads
Verdicts ==
  {handle_device_updated(device_ok, name_read, rssi_read) :
     device_ok \in BOOLEAN, name_read \in NameReads, rssi_read \in RssiReads}

\* what handle_device_updated does once its reads have decided
dispatch(verdict, adapter_address, d) ==
  CASE verdict = "discovered" -> get_or_create(adapter_address, d)
    [] verdict = "lost" -> on_device_lost(adapter_address, d)
    [] OTHER -> UNCHANGED << registryVars, actor_pc, age, mailbox, reported >>

\* the send of the handler, when it makes one on the channel of a registered
\* actor, succeeds (the channel of an actor made by this call is open)
DispatchOk(verdict, d) ==
  (verdict \in {"discovered", "lost"} /\ RegistryGet(d) # 0) => SendOk(d)

\* the poller task ends when its handler panicked (the registry lock it held is
\* poisoned then, which is not followed further)
PollerAfter(name, ok) ==
  /\ pollers' = IF ok THEN pollers ELSE [pollers EXCEPT ![name] = @ - 1]
  /\ UNCHANGED << bt_adapters, nearby, adapter_names, adapters >>

\* poll_adapter, lines 165-168: AdapterEvent::DeviceAdded, the reads not recorded
DeviceAdded ==
  \E name \in AdapterNames, d \in nearby, verdict \in {"discovered", "lost", "ignore"} :
    /\ pollers[name] > 0
    /\ Len(mailbox[d]) < MaxMailbox
    /\ verdict \in Verdicts
    /\ dispatch(verdict, AdapterAddress(name), d)
    /\ NoArbitration
    /\ Publish(<<>>)
    /\ observed' = Unwrap(NoObs, DispatchOk(verdict, d))
    /\ PollerAfter(name, DispatchOk(verdict, d))
    /\ UNCHANGED << hexVars, loopVars, timer, sessions >>

\* poll_adapter, lines 169-171: AdapterEvent::DeviceRemoved -> handle_device_removed
DeviceRemoved ==
  \E name \in AdapterNames, d \in nearby :
    /\ pollers[name] > 0
    /\ Len(mailbox[d]) < MaxMailbox
    /\ on_device_lost(AdapterAddress(name), d)
    /\ NoArbitration
    /\ Publish(<<>>)
    /\ observed' = Unwrap(RemovedObs(name, d), DispatchOk("lost", d))
    /\ PollerAfter(name, DispatchOk("lost", d))
    /\ UNCHANGED << hexVars, loopVars, timer, sessions >>

\* poll_adapter, lines 165-168: AdapterEvent::DeviceAdded, with the results of the
\* three reads of handle_device_updated and on_device_discovered recorded
DeviceAddedReads ==
  \E name \in AdapterNames, d \in nearby, device_ok \in BOOLEAN :
    \E name_read \in NameReads, rssi_read \in RssiReads :
      /\ pollers[name] > 0
      /\ Len(mailbox[d]) < MaxMailbox
      /\ dispatch(handle_device_updated(device_ok, name_read, rssi_read),
                  AdapterAddress(name), d)
      /\ NoArbitration
      /\ Publish(<<>>)
      /\ observed' = Unwrap(AddedObs(name, d, device_ok, name_read, rssi_read),
                            DispatchOk(handle_device_updated(device_ok, name_read, rssi_read), d))
      /\ PollerAfter(name, DispatchOk(handle_device_updated(device_ok, name_read, rssi_read), d))
      /\ UNCHANGED << hexVars, loopVars, timer, sessions >>

(***************************************************************************)
(* device_manager_loop                                                     *)
(***************************************************************************)
\* a stabilization sleep one clock step too short
StabilizeSleep_Short == StabilizeMs - TickMs

\* line 89: the length of the stabilization sleep
StabilizeSleep == StabilizeMs

\* a loop that makes no publish before it waits for messages
StartPublishes_None(d) == << >>

\* lines 80-83: the publish_device calls made before the loop
StartPublishes(d) == << InitialPublish(d) >>

\* lines 76-92: the loop's locals, the retained publish, the stabilization timer
ActorStart ==
  \E d \in DeviceAddrs :
    /\ actor_pc[d] = "spawned"
    /\ actor_pc' = [actor_pc EXCEPT ![d] = "loop"]
    /\ discovered_on_adapter' = [discovered_on_adapter EXCEPT ![d] = EmptyMap]
    /\ stabilized' = [stabilized EXCEPT ![d] = FALSE]
    /\ has_button_monitor' = [has_button_monitor EXCEPT ![d] = FALSE]
    /\ Publish(StartPublishes(d))
    /\ timer' = [timer EXCEPT ![d] = StabilizeSleep]
    /\ NoArbitration
    /\ NoObservation
    /\ UNCHANGED << hexVars, supervisorVars, registryVars, mailbox, sessions, age, reported >>

\* lines 88-91: the sleep is over, the timer task sends Stabilized
TimerFire ==
  \E d \in DeviceAddrs :
    /\ timer[d] = 0
    /\ timer' = [timer EXCEPT ![d] = -1]
    /\ mailbox' = IF SendOk(d)
                    THEN [mailbox EXCEPT ![d] =
                            Send(@, Msg("Stabilized", NoAddr, NoDevice, actors[d]))]
                    ELSE mailbox
    /\ NoArbitration
    /\ Publish(<<>>)
    /\ observed' = Unwrap(NoObs, SendOk(d))
    /\ UNCHANGED << hexVars, supervisorVars, registryVars, actor_pc, loopVars, sessions, age, reported >>

(***************************************************************************)
(* get_best_adapter: order is the HashMap's iteration order, reads the      *)
(* result of device.rssi() for each entry                                  *)
(***************************************************************************)
\* a best_candidate that starts from an adapter instead of None
NoCandidate_Stale == [some |-> TRUE, rssi |-> 0, adapter |-> Handle("A0", "d1")]
\* line 152: best_candidate = None
NoCandidate == [some |-> FALSE, rssi |-> 0, adapter |-> NoDevice]
Candidate(rssi, adapter) == [some |-> TRUE, rssi |-> rssi, adapter |-> adapter]

\* the comparison of line 156 turned round
BestStep_Weakest(best_candidate, adapter, read) ==
  IF read.tag = "OkSome"
    THEN IF best_candidate.some
           THEN IF read.val < best_candidate.rssi
                  THEN Candidate(read.val, adapter)
                  ELSE best_candidate
           ELSE Candidate(read.val, adapter)
    ELSE best_candidate

\* a loop without the else branch of lines 159-161: the first candidate is lost
BestStep_KeepsNone(best_candidate, adapter, read) ==
  IF read.tag = "OkSome" /\ best_candidate.some /\ read.val > best_candidate.rssi
    THEN Candidate(read.val, adapter)
    ELSE best_candidate

\* lines 154-162: one iteration of the for loop
BestStep(best_candidate, adapter, read) ==
  IF read.tag = "OkSome"
    THEN IF best_candidate.some
           THEN IF read.val > best_candidate.rssi
                  THEN Candidate(read.val, adapter)
                  ELSE best_candidate
           ELSE Candidate(read.val, adapter)
    ELSE best_candidate

RECURSIVE BestLoop(_, _, _, _)
BestLoop(map, order, reads, best_candidate) ==
  IF order = <<>>
    THEN best_candidate
    ELSE BestLoop(map, Tail(order), reads,
                  BestStep(best_candidate, map[Head(order)], reads[Head(order)]))

\* the ConnectedAdapter returned, NoDevice for None
get_best_adapter(map, order, reads) == BestLoop(map, order, reads, NoCandidate).adapter

\* the iteration orders of a HashMap with these keys
Orders(S) ==
  {o \in [1..Cardinality(S) -> S] : \A i, j \in 1..Cardinality(S) : i # j => o[i] # o[j]}
\* the reads an arbitration over these keys may see
ReadsOf(S) ==
  {r \in [AdapterAddrs -> RssiReads \cup {NotRead}] : \A a \in AdapterAddrs :
     (r[a] = NotRead) <=> (a \notin S)}

(***************************************************************************)
(* device_manager_loop: one message                                        *)
(***************************************************************************)
\* lines 95-126: the match on the event
MapAfter(map, event) ==
  CASE event.type = "DeviceDiscovered" -> [map EXCEPT ![event.adapter_address] = event.device]
    [] event.type = "DeviceLost" -> [map EXCEPT ![event.adapter_address] = NoDevice]
    [] OTHER -> map
\* a loop whose DeviceLost arm also clears the flag
MonitorAfter_ClearsOnLost(flag, event) ==
  IF event.type \in {"ButtonMonitorExit", "DeviceLost"} THEN FALSE ELSE flag
\* a loop whose ButtonMonitorExit arm leaves the flag set
MonitorAfter_NeverClears(flag, event) == flag

\* a loop whose Stabilized arm leaves the flag unset
StabilizedAfter_Never(flag, event) == flag

StabilizedAfter(flag, event) == IF event.type = "Stabilized" THEN TRUE ELSE flag
MonitorAfter(flag, event) == IF event.type = "ButtonMonitorExit" THEN FALSE ELSE flag

\* a loop that forgets the has_button_monitor check of line 133
ShouldArbitrate_IgnoringMonitor(is_stabilized, has_monitor) == is_stabilized

\* a loop that forgets the stabilized check of line 128
ShouldArbitrate_IgnoringStabilized(is_stabilized, has_monitor) == ~has_monitor

\* lines 128-133: arbitration runs
ShouldArbitrate(is_stabilized, has_monitor) == is_stabilized /\ ~has_monitor

\* line 140: the task running monitor_itag_button on the chosen device
\* trail: what the task has done so far, in order
NewSession(device) ==
  [pc |-> "is_connected", device |-> device, timeout |-> -1, error |-> "-", trail |-> << >>]

\* lines 94-146: receive one message and handle it, or leave the loop and return
\* when recv() gave None
DeviceManagerLoop ==
  \E d \in DeviceAddrs :
    /\ actor_pc[d] = "loop"
    /\ Recv(mailbox[d], ActorRefs(d)) # "Pending"
    /\ IF Recv(mailbox[d], ActorRefs(d)) = "None"
         THEN /\ actor_pc' = [actor_pc EXCEPT ![d] = "exited"]
              /\ NoArbitration
              /\ UNCHANGED << mailbox, loopVars, sessions >>
         ELSE /\ UNCHANGED actor_pc
              /\ LET event == Head(mailbox[d])
                      map == MapAfter(discovered_on_adapter[d], event)
                      is_stabilized == StabilizedAfter(stabilized[d], event)
                      has_monitor == MonitorAfter(has_button_monitor[d], event)
                  IN  /\ mailbox' = [mailbox EXCEPT ![d] = Tail(@)]
                      /\ discovered_on_adapter' = [discovered_on_adapter EXCEPT ![d] = map]
                      /\ stabilized' = [stabilized EXCEPT ![d] = is_stabilized]
                      /\ IF ShouldArbitrate(is_stabilized, has_monitor)
                           THEN \E order \in Orders(Keys(map)), reads \in ReadsOf(Keys(map)) :
                                  LET adapter == get_best_adapter(map, order, reads)
                                  IN  /\ arb' = [dev |-> d, event |-> event, reads |-> reads,
                                                 best |-> adapter.adapter_address]
                                      /\ IF adapter # NoDevice
                                           THEN /\ has_button_monitor' =
                                                     [has_button_monitor EXCEPT ![d] = TRUE]
                                                /\ sessions' = [sessions EXCEPT ![d] =
                                                                  Append(@, NewSession(adapter))]
                                           ELSE /\ has_button_monitor' =
                                                     [has_button_monitor EXCEPT ![d] = has_monitor]
                                                /\ UNCHANGED sessions
                           ELSE /\ NoArbitration
                                /\ has_button_monitor' = [has_button_monitor EXCEPT ![d] = has_monitor]
                                /\ UNCHANGED sessions
    /\ Publish(<<>>)
    /\ NoObservation
    /\ UNCHANGED << hexVars, supervisorVars, registryVars, timer, age, reported >>

(***************************************************************************)
(* monitor_itag_button, one action per await                               *)
(***************************************************************************)
SessionAt(d, i, pc) == sessions[d][i].pc = pc
SetSession(d, i, session) == sessions' = [sessions EXCEPT ![d][i] = session]
\* monitor_itag_button returns; line 142 is still to run
Returned(session, error) == [session EXCEPT !.pc = "returned", !.error = error, !.timeout = -1]
\* the task has passed this point of monitor_itag_button
Reached(session, point) == [session EXCEPT !.trail = Append(@, point)]
sessionFrame ==
  << hexVars, supervisorVars, registryVars, actor_pc, mailbox, loopVars, timer, age, reported >>

\* line 173: device.is_connected().await?
MonitorIsConnected ==
  \E d \in DeviceAddrs : \E i \in 1..Len(sessions[d]), result \in {"Err", "true", "false"} :
    /\ SessionAt(d, i, "is_connected")
    /\ SetSession(d, i,
         CASE result = "Err" -> Returned(sessions[d][i], "is_connected_err")
           [] result = "true" -> [Reached(sessions[d][i], "connected") EXCEPT !.pc = "events"]
           [] OTHER -> [sessions[d][i] EXCEPT !.pc = "connect", !.timeout = ConnectTimeoutMs])
    /\ Quiet
    /\ UNCHANGED sessionFrame

\* failure branches that return the error without the disconnect
AfterConnectFailure_NoDisconnect(session, error) == Returned(session, error)
\* lines 180-190: both failure branches of the race go on to device.disconnect()
AfterConnectFailure(session, error) ==
  [session EXCEPT !.pc = "disconnect", !.error = error, !.timeout = -1]

\* lines 174-191: the race of device.connect() against the 5 s sleep
MonitorConnect ==
  \E d \in DeviceAddrs : \E i \in 1..Len(sessions[d]), result \in {"Ok", "Err", "Timeout"} :
    /\ SessionAt(d, i, "connect")
    /\ result = "Timeout" => sessions[d][i].timeout = 0
    /\ SetSession(d, i,
         CASE result = "Ok" ->
                [Reached(sessions[d][i], "connected") EXCEPT !.pc = "events", !.timeout = -1]
           [] result = "Err" -> AfterConnectFailure(sessions[d][i], "connect_err")
           [] OTHER -> AfterConnectFailure(sessions[d][i], "connect_timeout"))
    /\ Quiet
    /\ UNCHANGED sessionFrame

\* lines 182-183 and 188-189: device.disconnect().await?, then return Err
MonitorDisconnect ==
  \E d \in DeviceAddrs : \E i \in 1..Len(sessions[d]), ok \in BOOLEAN :
    /\ SessionAt(d, i, "disconnect")
    /\ SetSession(d, i,
         Returned(Reached(sessions[d][i], "disconnect"),
                  IF ok THEN sessions[d][i].error ELSE "disconnect_err"))
    /\ Quiet
    /\ UNCHANGED sessionFrame

\* line 194: device.events().await?
MonitorEvents ==
  \E d \in DeviceAddrs : \E i \in 1..Len(sessions[d]), ok \in BOOLEAN :
    /\ SessionAt(d, i, "events")
    /\ SetSession(d, i,
         IF ok THEN [Reached(sessions[d][i], "events") EXCEPT !.pc = "notify"]
               ELSE Returned(sessions[d][i], "events_err"))
    /\ Quiet
    /\ UNCHANGED sessionFrame

\* lines 195-202: get_button_notify_stream(device).await?, stop_beeping (its
\* result is dropped), the present publish
MonitorNotify ==
  \E d \in DeviceAddrs : \E i \in 1..Len(sessions[d]), ok \in BOOLEAN :
    /\ SessionAt(d, i, "notify")
    /\ IF ok
         THEN /\ SetSession(d, i,
                   [Reached(Reached(sessions[d][i], "button_notify"), "present")
                      EXCEPT !.pc = "loop"])
              /\ Publish(<< PresentPublish(sessions[d][i].device.address) >>)
         ELSE /\ SetSession(d, i, Returned(sessions[d][i], "no_button"))
              /\ Publish(<<>>)
    /\ NoArbitration
    /\ NoObservation
    /\ UNCHANGED sessionFrame

\* lines 206-238: one round of the select loop; a property event changes nothing.
\* Either stream ending breaks the loop: the absent publish, then return Ok
MonitorLoop ==
  \E d \in DeviceAddrs :
    \E i \in 1..Len(sessions[d]), next \in {"button", "events_end", "button_end"} :
      /\ SessionAt(d, i, "loop")
      /\ IF next = "button"
           THEN /\ Publish(ClickPublish(sessions[d][i].device.address))
                /\ observed' = ButtonObs(d)
                /\ UNCHANGED sessions
           ELSE /\ Publish(<< AbsentPublish(sessions[d][i].device.address) >>)
                /\ NoObservation
                /\ SetSession(d, i,
                     Returned(Reached(sessions[d][i], "absent"), next))
      /\ NoArbitration
      /\ UNCHANGED sessionFrame

\* a task that propagates the monitor's error with ? instead of dropping it
ExitMessages_OnlyOnOk(d, error) ==
  IF error \in {"events_end", "button_end"}
    THEN << [Msg("ButtonMonitorExit", NoAddr, NoDevice, actors[d]) EXCEPT !.error = error] >>
    ELSE << >>

\* line 142: the messages the task sends once monitor_itag_button has returned
ExitMessages(d, error) ==
  << [Msg("ButtonMonitorExit", NoAddr, NoDevice, actors[d]) EXCEPT !.error = error] >>

RemoveAt(seq, i) == SubSeq(seq, 1, i - 1) \o SubSeq(seq, i + 1, Len(seq))

\* lines 141-143: the spawned task ends
SessionExit ==
  \E d \in DeviceAddrs : \E i \in 1..Len(sessions[d]) :
    /\ SessionAt(d, i, "returned")
    /\ mailbox' = IF SendOk(d)
                    THEN [mailbox EXCEPT ![d] = @ \o ExitMessages(d, sessions[d][i].error)]
                    ELSE mailbox
    /\ sessions' = [sessions EXCEPT ![d] = RemoveAt(@, i)]
    /\ NoArbitration
    /\ Publish(<<>>)
    /\ observed' = Unwrap(NoObs, ExitMessages(d, sessions[d][i].error) # << >> => SendOk(d))
    /\ UNCHANGED << hexVars, supervisorVars, registryVars, actor_pc, loopVars, timer, age, reported >>

(***************************************************************************)
(* Time                                                                    *)
(***************************************************************************)
Elapse(left, dt) == IF left > 0 THEN Max(left - dt, 0) ELSE left

\* some stabilization window is open: the clock is followed in steps of TickMs
Settling == \E d \in DeviceAddrs : actor_pc[d] # "none" /\ (timer[d] > 0 \/ age[d] < StabilizeMs)
Connecting == \E d \in DeviceAddrs : \E i \in 1..Len(sessions[d]) : sessions[d][i].timeout > 0

\* time passes: dt milliseconds for every sleeping task
Tick ==
  \E dt \in {TickMs, ConnectTimeoutMs} :
    /\ IF dt = TickMs THEN Settling ELSE ~Settling /\ Connecting
    /\ timer' = [d \in DeviceAddrs |-> Elapse(timer[d], dt)]
    /\ sessions' = [d \in DeviceAddrs |->
                      [i \in 1..Len(sessions[d]) |->
                         [sessions[d][i] EXCEPT !.timeout = Elapse(@, dt)]]]
    /\ age' = [d \in DeviceAddrs |->
                 IF actor_pc[d] # "none" THEN Min(age[d] + dt, StabilizeMs) ELSE age[d]]
    /\ Quiet
    /\ UNCHANGED << hexVars, supervisorVars, registryVars, actor_pc, mailbox, loopVars, reported >>

(***************************************************************************)
(* Specification                                                           *)
(***************************************************************************)
Next ==
  \/ StartupAdapter
  \/ AdapterAdded
  \/ AdapterRemoved
  \/ PollerExit
  \/ DeviceAdded
  \/ DeviceRemoved
  \/ ActorStart
  \/ TimerFire
  \/ DeviceManagerLoop
  \/ MonitorIsConnected
  \/ MonitorConnect
  \/ MonitorDisconnect
  \/ MonitorEvents
  \/ MonitorNotify
  \/ MonitorLoop
  \/ SessionExit
  \/ Tick

Spec == Init /\ [][Next]_vars
\* the task spawned at line 140 has no await between the return of
\* monitor_itag_button and its send: once the monitor returned, the send runs
FairSpec == Spec /\ WF_vars(SessionExit)
\* and device.disconnect() is a call BlueZ answers: the task waiting for it goes on
FairDisconnectSpec == Spec /\ WF_vars(MonitorDisconnect) /\ WF_vars(SessionExit)
\* the runtime runs every task that can go on: a spawned loop starts, the clock
\* passes for a sleeping timer task, the timer task sends once its sleep is over,
\* and the loop takes the next message of a channel that is not empty
FairStabilizeSpec ==
  Spec /\ WF_vars(ActorStart) /\ WF_vars(Tick) /\ WF_vars(TimerFire) /\ WF_vars(DeviceManagerLoop)
\* the same program with two devices in range
SpecTwo == InitTwo /\ [][Next]_vars

\* the program before any sleep is over, with every read of the pollers recorded
NextReads ==
  \/ StartupAdapter
  \/ AdapterAdded
  \/ AdapterRemoved
  \/ PollerExit
  \/ DeviceAddedReads
  \/ DeviceRemoved
  \/ ActorStart
  \/ DeviceManagerLoop
SpecReads == Init /\ [][NextReads]_vars

\* publish_device formats the topics of the two ids
Render ==
  /\ topics = << >>
  /\ topics' = [i \in 1..2 |-> << presence_topic(device_ids[i]), button_topic(device_ids[i]) >>]
  /\ UNCHANGED << device_ids, supervisorVars, registryVars, actor_pc, mailbox, loopVars,
                  timer, sessions, published, last_published, age, reported, arb, observed >>
NextHex == Render
SpecHex == InitHex /\ [][NextHex]_vars

(***************************************************************************)
(* Properties                                                              *)
(***************************************************************************)
\* the step receives and handles the head of d's mailbox
Handles(d) ==
  /\ actor_pc[d] = "loop"
  /\ mailbox[d] # <<>>
  /\ mailbox'[d] = Tail(mailbox[d])
\* the step handles a message of this type
HandlesType(d, type) == Handles(d) /\ Head(mailbox[d]).type = type
\* the step spawns a session for d
Spawns(d) == Len(sessions'[d]) > Len(sessions[d])
\* the ButtonMonitorExit messages waiting in d's mailbox
ExitsIn(box) == {i \in 1..Len(box) : box[i].type = "ButtonMonitorExit"}
\* the ways monitor_itag_button returns
Errors ==
  {"is_connected_err", "connect_err", "connect_timeout", "disconnect_err", "events_err",
   "no_button", "events_end", "button_end"}

\* C1: for every device address, the sessions that were spawned and have not
\* yet sent their exit message number 0 or 1 in every reachable state
C1_AtMostOneSession == \A d \in DeviceAddrs : Len(sessions[d]) <= 1

\* a session runs while both adapters see the device and the actor has handled
\* every message
C1_Witness ==
  \E d \in DeviceAddrs :
    /\ Len(sessions[d]) = 1
    /\ sessions[d][1].pc = "loop"
    /\ Keys(discovered_on_adapter[d]) = AdapterAddrs
    /\ mailbox[d] = <<>>

\* every spawned session is accounted for exactly once: while the actor's flag
\* is set, either the session's task still runs or its one exit message waits in
\* the mailbox; while the flag is clear there is neither
C2_ExitOnce ==
  \A d \in DeviceAddrs :
    Len(sessions[d]) + Cardinality(ExitsIn(mailbox[d]))
      = (IF actor_pc[d] = "loop" /\ has_button_monitor[d] THEN 1 ELSE 0)

\* C2: the termination message of a session is enqueued in the owning actor's
\* mailbox exactly once per spawned session, and eventually, for every way
\* monitor_itag_button can return
C2_ExitDelivered ==
  /\ []C2_ExitOnce
  /\ \A d \in DeviceAddrs, e \in Errors :
       (\E i \in 1..Len(sessions[d]) :
          sessions[d][i].pc = "returned" /\ sessions[d][i].error = e)
         ~> (\E i \in ExitsIn(mailbox[d]) : mailbox[d][i].error = e)

\* the exit message of a session whose connect timed out waits in the mailbox
C2_Witness ==
  \E d \in DeviceAddrs :
    /\ sessions[d] = <<>>
    /\ has_button_monitor[d]
    /\ \E i \in ExitsIn(mailbox[d]) : mailbox[d][i].error = "connect_timeout"

\* a session returned this way because its connect attempt failed or timed out
\* (the disconnect that follows may fail too)
ConnectFailures == {"connect_err", "connect_timeout", "disconnect_err"}
\* the step handles the exit message of a session whose connect attempt failed
HandlesFailedExit(d) ==
  HandlesType(d, "ButtonMonitorExit") /\ Head(mailbox[d]).error \in ConnectFailures
\* a session of d failed to connect and its exit message is not yet handled
FailedExitPending(d) ==
  \/ \E i \in 1..Len(sessions[d]) :
       sessions[d][i].pc = "returned" /\ sessions[d][i].error \in ConnectFailures
  \/ \E i \in ExitsIn(mailbox[d]) : mailbox[d][i].error \in ConnectFailures
\* some entry of d's map was read with a value by the arbitration of the step
SomeReadable(d) ==
  \E a \in Keys(discovered_on_adapter'[d]) : arb'.reads[a].tag = "OkSome"

Settled(d) ==
  /\ actor_pc[d] = "loop"
  /\ \A i \in 1..Len(mailbox[d]) : mailbox[d][i].type \notin {"DeviceDiscovered", "DeviceLost"}

\* C4: once an actor has handled every message dispatched to it, an adapter is a
\* key of its visibility map if and only if the adapter's latest dispatched event
\* for the device was a validated discovery and the adapter is still present
C4_MapMatchesAdapters ==
  \A d \in DeviceAddrs :
    Settled(d) =>
      Keys(discovered_on_adapter[d])
        = {a \in reported[d] : AdapterNameOf(a) \in adapters}

\* C5: arbitration runs only while the stabilized flag is set and the
\* active-session flag is clear; a session is spawned only by an arbitration; a
\* Discovered message handled while a session is active runs no arbitration and
\* leaves the sessions alone
C5_ArbitrationGuard ==
  [][\A d \in DeviceAddrs :
       /\ arb'.dev = d =>
            /\ Handles(d)
            /\ stabilized'[d]
            /\ ~has_button_monitor[d] \/ Head(mailbox[d]).type = "ButtonMonitorExit"
       /\ Spawns(d) => arb'.dev = d /\ Len(sessions[d]) = 0
       /\ (has_button_monitor[d] /\ HandlesType(d, "DeviceDiscovered")) =>
            /\ sessions'[d] = sessions[d]
            /\ arb' = NoArb
            /\ has_button_monitor'[d]]_vars

\* a session bound to hci0 is connecting, the actor has since handled the
\* discovery on hci1, and no arbitration ran
C5_Witness ==
  \E d \in DeviceAddrs :
    /\ has_button_monitor[d]
    /\ stabilized[d]
    /\ Len(sessions[d]) = 1
    /\ sessions[d][1].pc = "connect"
    /\ sessions[d][1].device.adapter_address = "A0"
    /\ "A1" \in Keys(discovered_on_adapter[d])
    /\ reported[d] = AdapterAddrs
    /\ mailbox[d] = <<>>
    /\ arb = NoArb

\* C6: no session is spawned for a device, and no arbitration runs for it, before
\* 1000 ms have passed since the discovery that created its actor
C6_NoSessionBeforeStabilization ==
  \A d \in DeviceAddrs :
    (sessions[d] # <<>> \/ has_button_monitor[d] \/ arb.dev = d) => age[d] >= StabilizeMs

\* the step that handled Stabilized spawned a session, both adapters having
\* discovered the device inside the window
C6_Witness ==
  /\ arb.dev # NoAddr
  /\ arb.event.type = "Stabilized"
  /\ arb.best # NoAddr
  /\ Keys(discovered_on_adapter[arb.dev]) = AdapterAddrs
  /\ sessions[arb.dev] # <<>>

\* the map entries the arbitration read with a value
Readable(a) == {x \in AdapterAddrs : a.reads[x].tag = "OkSome"}

\* C7: get_best_adapter returns an entry of the visibility map whose read gave a
\* value, that value is at least the value of every other entry read with a
\* value, and it returns none exactly when no entry is read with a value
C7_BestAdapter ==
  arb.dev # NoAddr =>
    /\ Readable(arb) \subseteq Keys(discovered_on_adapter[arb.dev])
    /\ (arb.best = NoAddr) <=> (Readable(arb) = {})
    /\ arb.best # NoAddr =>
         /\ arb.best \in Readable(arb)
         /\ \A x \in Readable(arb) : arb.reads[arb.best].val >= arb.reads[x].val

\* hci0 reads -70 and hci1 reads -50: hci1 is chosen
C7_Witness ==
  /\ arb.dev # NoAddr
  /\ arb.reads["A0"] = RssiSome(-70)
  /\ arb.reads["A1"] = RssiSome(-50)
  /\ arb.best = "A1"

\* C8: at most one DeviceActor (one mailbox, one loop, one timer) is ever created
\* for an address, the registry entry of an address never changes once set, and
\* every dispatched message is on the channel of the registered actor
C8_OneActorPerAddress ==
  /\ [](\A d \in DeviceAddrs :
          /\ created[d] <= 1
          /\ actors[d] = created[d]
          /\ (actor_pc[d] = "none") <=> (created[d] = 0)
          /\ \A i \in 1..Len(mailbox[d]) : mailbox[d][i].actor = actors[d] /\ actors[d] # 0)
  /\ [][\A d \in DeviceAddrs :
          /\ actors[d] # 0 => actors'[d] = actors[d]
          /\ actor_pc[d] = "loop" => actor_pc'[d] = "loop"
          /\ (timer'[d] = StabilizeMs /\ timer[d] # StabilizeMs) => actor_pc[d] = "spawned"]_vars

\* both pollers run and both have discovered the device: the second discovery
\* waits in the mailbox of the actor the first one created
C8_Witness ==
  \E d \in DeviceAddrs :
    /\ created[d] = 1
    /\ \A n \in AdapterNames : pollers[n] > 0
    /\ "A0" \in Keys(discovered_on_adapter[d])
    /\ mailbox[d] # <<>>
    /\ Head(mailbox[d]).type = "DeviceDiscovered"
    /\ Head(mailbox[d]).adapter_address = "A1"

\* the call made before the i-th publish_device call of the step, for the same
\* device: NoCall when the i-th is the device's first ever
Previous(i) ==
  LastFor(published'[i].device_id, SubSeq(published', 1, i - 1),
          last_published[published'[i].device_id])
\* the two requests of the i-th call of the step
RequestsOf(i) == {publish_device(published'[i])[k] : k \in 1..2}

\* C9 as stated: the first presence publish of a device (payload absent) is its
\* only retained publish; every later presence publish and every button/click
\* publish, the one made at actor creation included, is non-retained
C9_OnlyFirstPresenceRetained ==
  [][\A i \in 1..Len(published') : \A r \in RequestsOf(i) :
       r.retained <=> (r.topic = "presence" /\ r.payload = "0" /\ Previous(i) = NoCall)]_vars

\* C9 amended: the publish_device call made at actor creation is the device's only
\* retained one and it sets the flag on both of its requests, the presence
\* publish (payload absent) and the button/click publish (payload not clicked);
\* every later publish on either topic is non-retained
C9_OnlyFirstCallRetained ==
  [][\A i \in 1..Len(published') : \A r \in RequestsOf(i) :
       /\ r.retained <=> (Previous(i) = NoCall)
       /\ r.retained => r.payload = "0"]_vars

\* a session has published the present and then the absent record after the
\* retained publish of the actor
C9_Witness ==
  \E d \in DeviceAddrs :
    /\ published = << AbsentPublish(d) >>
    /\ last_published[d] = AbsentPublish(d)
    /\ sessions[d] # <<>>

\* C10: for every device address the retained publish request with present=false
\* made by the new actor precedes every non-retained publish request
C10_RetainedFirst ==
  [][\A i \in 1..Len(published') :
       /\ ~published'[i].retained => Previous(i) # NoCall
       /\ Previous(i) = NoCall =>
            /\ published'[i].retained
            /\ ~published'[i].is_present
            /\ actor_pc[published'[i].device_id] = "spawned"]_vars

\* the present record of a session is the latest publish of the device
C10_Witness ==
  \E d \in DeviceAddrs :
    /\ last_published[d] = PresentPublish(d)
    /\ published = << PresentPublish(d) >>

C12_NoSpawnWhileInvisible ==
  [][\A d \in DeviceAddrs :
       (Keys(discovered_on_adapter[d]) = {} /\ ~HandlesType(d, "DeviceDiscovered")) =>
         /\ Keys(discovered_on_adapter'[d]) = {}
         /\ ~Spawns(d)
         /\ sessions[d] = <<>> => sessions'[d] = <<>>]_vars

\* the map is empty and no session is active: the SessionExited message has just
\* been handled, arbitration ran and spawned nothing
C12_Witness ==
  /\ arb.dev # NoAddr
  /\ arb.event.type = "ButtonMonitorExit"
  /\ arb.best = NoAddr
  /\ Keys(discovered_on_adapter[arb.dev]) = {}
  /\ stabilized[arb.dev]
  /\ ~has_button_monitor[arb.dev]
  /\ sessions[arb.dev] = <<>>

\* the session took a failure branch of the connect race
ConnectFailed(session) ==
  \/ session.pc = "disconnect"
  \/ session.pc = "returned" /\ session.error \in ConnectFailures
\* the step makes a publish_device call for d
PublishesFor(d) == \E i \in 1..Len(published') : published'[i].device_id = d

\* C13: a session whose connect attempt timed out (the 5 s sleep being over) or
\* returned an error issues a disconnect, publishes neither a present nor an
\* absent record, returns, and its SessionExited message reaches the mailbox of
\* the actor
C13_ConnectFailure ==
  /\ [](\A d \in DeviceAddrs : \A i \in 1..Len(sessions[d]) :
          ConnectFailed(sessions[d][i]) =>
            /\ sessions[d][i].error \in ConnectFailures
            /\ sessions[d][i].trail
                 = (IF sessions[d][i].pc = "returned" THEN << "disconnect" >> ELSE << >>))
  /\ [][\A d \in DeviceAddrs : \A i \in 1..Len(sessions[d]) :
          /\ (sessions[d][i].pc = "connect" /\ i \in 1..Len(sessions'[d])
                /\ sessions'[d][i].error = "connect_timeout") =>
               /\ sessions[d][i].timeout = 0
               /\ sessions'[d][i].pc = "disconnect"
          /\ (ConnectFailed(sessions[d][i]) \/ (i \in 1..Len(sessions'[d])
                                                  /\ ConnectFailed(sessions'[d][i]))) =>
               ~PublishesFor(d)]_vars
  /\ \A d \in DeviceAddrs, e \in {"connect_err", "connect_timeout"} :
       (\E i \in 1..Len(sessions[d]) :
          sessions[d][i].pc = "disconnect" /\ sessions[d][i].error = e)
         ~> (\E i \in ExitsIn(mailbox[d]) : mailbox[d][i].error \in {e, "disconnect_err"})

\* a session whose connect timed out has disconnected and returned, with the
\* retained record still the latest publish of its device
C13_Witness ==
  \E d \in DeviceAddrs :
    /\ Len(sessions[d]) = 1
    /\ sessions[d][1].pc = "returned"
    /\ sessions[d][1].error = "connect_timeout"
    /\ sessions[d][1].trail = << "disconnect" >>
    /\ last_published[d] = InitialPublish(d)

\* C14: a poller is spawned for an adapter name only if the name passes the
\* allow-list (an empty list accepts every name) and is not yet in the accepted
\* set, and the spawn puts it there; while a name is in the accepted set, that is
\* from its acceptance to the next removed event for it, no poller is spawned for
\* it; a failed set_powered leaves the outcome of handle_new_adapter as it is
C14_PollerSpawn ==
  /\ [][\A n \in AdapterNames :
          /\ pollers'[n] > pollers[n] =>
               /\ bt_adapters = {} \/ n \in bt_adapters
               /\ n \notin adapters
               /\ n \in adapters'
               /\ pollers'[n] = pollers[n] + 1
               /\ observed' \in {PollerObs(n, TRUE), PollerObs(n, FALSE)}
          /\ n \in adapters => pollers'[n] <= pollers[n]
          /\ (n \notin adapters /\ n \in adapters') => pollers'[n] = pollers[n] + 1]_vars
  /\ [](\A n \in AdapterNames, adapter_ok \in BOOLEAN, address_ok \in BOOLEAN :
          Accepts(n, adapter_ok, FALSE, address_ok) = Accepts(n, adapter_ok, TRUE, address_ok))

\* with an empty allow-list, hci1 was accepted and its poller spawned although
\* set_powered failed, hci0 being accepted already
C14_Witness ==
  /\ bt_adapters = {}
  /\ observed = PollerObs("hci1", FALSE)
  /\ adapters = {"hci0", "hci1"}
  /\ pollers["hci1"] = 1

\* the text is ITAG in any mix of cases, with any white space around it
IsItagText(text) ==
  \E i \in 1..Len(text) :
    /\ i + 3 <= Len(text)
    /\ text[i] \in {"i", "I"} /\ text[i + 1] \in {"t", "T"}
    /\ text[i + 2] \in {"a", "A"} /\ text[i + 3] \in {"g", "G"}
    /\ \A k \in 1..Len(text) : (k < i \/ k > i + 3) => text[k] \in {" ", "\t", "\n"}
\* the step changes nothing of the registry, the actors and their mailboxes
NothingDispatched ==
  UNCHANGED << actors, created, actor_pc, mailbox, reported, discovered_on_adapter,
               stabilized, has_button_monitor, timer, sessions >>
\* the step sends one message of this type, from this adapter, to the actor of d
Dispatched(type, adapter_name, d) ==
  /\ Len(mailbox'[d]) = Len(mailbox[d]) + 1
  /\ mailbox'[d] = Append(mailbox[d], mailbox'[d][Len(mailbox'[d])])
  /\ mailbox'[d][Len(mailbox'[d])].type = type
  /\ mailbox'[d][Len(mailbox'[d])].adapter_address = AdapterAddress(adapter_name)
  /\ \A e \in DeviceAddrs \ {d} : mailbox'[e] = mailbox[e]
\* a Lost dispatched to the registry: sent to the actor of d, a no-op without one
LostDispatched(adapter_name, d) ==
  IF actors[d] # 0
    THEN Dispatched("DeviceLost", adapter_name, d) /\ UNCHANGED << actors, created, actor_pc >>
    ELSE NothingDispatched

\* C15: a poller dispatches Discovered, and creates an actor if there is none,
\* only for a device whose handle resolved, whose name was read and is ITAG in
\* any case after trimming, and whose signal strength was read with a value; a
\* handle that does not resolve, a name-read error, and for an ITAG name a signal
\* strength absent or in error each dispatch Lost; a missing or other name
\* dispatches nothing; device removed always dispatches Lost; a Lost for an
\* address without actor creates none and changes no state
C15_Validation ==
  [][LET o == observed'
         named == o.ok /\ o.name_read.tag = "OkSome" /\ IsItagText(o.name_read.name)
         passes == named /\ o.rssi_read.tag = "OkSome"
         lost == \/ ~o.ok
                 \/ o.ok /\ o.name_read.tag = "Err"
                 \/ named /\ o.rssi_read.tag \in {"OkNone", "Err"}
         nothing == /\ o.ok
                    /\ \/ o.name_read.tag = "OkNone"
                       \/ o.name_read.tag = "OkSome" /\ ~IsItagText(o.name_read.name)
     IN  /\ o.kind = "added" =>
              /\ passes \/ lost \/ nothing
              /\ passes => /\ Dispatched("DeviceDiscovered", o.adapter, o.device)
                           /\ actors'[o.device] # 0
                           /\ actors[o.device] # 0 => UNCHANGED << actors, created, actor_pc >>
              /\ lost => LostDispatched(o.adapter, o.device)
              /\ nothing => NothingDispatched
         /\ o.kind = "removed" => LostDispatched(o.adapter, o.device)
         /\ \A d \in DeviceAddrs :
              (created'[d] # created[d] \/ actors'[d] # actors[d]
                 \/ \E a \in AdapterNames : Dispatched("DeviceDiscovered", a, d)) =>
                (o.kind = "added" /\ o.device = d /\ passes)]_vars

\* hci0 read the name " itag" followed by a newline and a signal strength: the
\* actor was created and the Discovered message waits in its mailbox
C15_Witness ==
  /\ observed.kind = "added"
  /\ observed.ok
  /\ observed.name_read.name = <<" ", "i", "t", "a", "g", "\n">>
  /\ observed.rssi_read.tag = "OkSome"
  /\ created[observed.device] = 1
  /\ actor_pc[observed.device] = "spawned"
  /\ Len(mailbox[observed.device]) = 1
  /\ mailbox[observed.device][1].type = "DeviceDiscovered"

\* how often the task has passed this point
Times(trail, point) == Cardinality({k \in 1..Len(trail) : trail[k] = point})
\* the trail of a session that is connected, has its event stream and has located
\* the button-notification characteristic, and has published present
PresentTrail == << "connected", "events", "button_notify", "present" >>
\* the i-th session of d passes this point in the step
Passes(d, i, point) ==
  /\ i \in 1..Len(sessions'[d])
  /\ Len(sessions'[d]) = Len(sessions[d])
  /\ Times(sessions'[d][i].trail, point) > Times(sessions[d][i].trail, point)

\* C16: a session publishes present only once it is connected and has located
\* the button-notification characteristic; a session that published present
\* publishes absent exactly once, after its loop and before its SessionExited
\* message is sent; a session that returns before that point publishes nothing
C16_PresentAbsent ==
  /\ [](\A d \in DeviceAddrs : \A i \in 1..Len(sessions[d]) :
          LET session == sessions[d][i]
          IN  /\ Times(session.trail, "present") <= 1
              /\ Times(session.trail, "absent") <= 1
              /\ Times(session.trail, "present") = 1 =>
                   /\ SubSeq(session.trail, 1, 4) = PresentTrail
                   /\ session.pc \in {"loop", "returned"}
              /\ session.pc = "loop" => session.trail = PresentTrail
              /\ session.pc = "returned" =>
                   IF session.error \in {"events_end", "button_end"}
                     THEN session.trail = Append(PresentTrail, "absent")
                     ELSE /\ Times(session.trail, "present") = 0
                          /\ Times(session.trail, "absent") = 0)
  /\ [][\A d \in DeviceAddrs :
          /\ \A i \in 1..Len(sessions[d]) :
               /\ Passes(d, i, "present") => published' = << PublishCall(d, FALSE, TRUE, FALSE) >>
               /\ Passes(d, i, "absent") =>
                    /\ published' = << PublishCall(d, FALSE, FALSE, FALSE) >>
                    /\ sessions[d][i].pc = "loop"
                    /\ sessions'[d][i].pc = "returned"
          /\ (PublishesFor(d) /\ actor_pc[d] = "loop") =>
               \E i \in 1..Len(sessions[d]) :
                 \/ Passes(d, i, "present")
                 \/ Passes(d, i, "absent")
                 \/ sessions[d][i].pc = "loop" /\ observed' = ButtonObs(d)
          /\ Len(mailbox'[d]) > Len(mailbox[d]) /\ Len(sessions'[d]) < Len(sessions[d]) =>
               \E i \in 1..Len(sessions[d]) :
                 /\ sessions[d][i].pc = "returned"
                 /\ Times(sessions[d][i].trail, "absent")
                      = Times(sessions[d][i].trail, "present")]_vars

\* a session has published present, left its loop and published absent, and has
\* not yet sent its SessionExited message
C16_Witness ==
  \E d \in DeviceAddrs :
    /\ Len(sessions[d]) = 1
    /\ sessions[d][1].pc = "returned"
    /\ sessions[d][1].trail = Append(PresentTrail, "absent")
    /\ published = << PublishCall(d, FALSE, FALSE, FALSE) >>
    /\ ExitsIn(mailbox[d]) = {}

\* the value of a lowercase hexadecimal digit, -1 for any other character
HexValue(c) ==
  CASE c = "0" -> 0 [] c = "1" -> 1 [] c = "2" -> 2 [] c = "3" -> 3 [] c = "4" -> 4
    [] c = "5" -> 5 [] c = "6" -> 6 [] c = "7" -> 7 [] c = "8" -> 8 [] c = "9" -> 9
    [] c = "a" -> 10 [] c = "b" -> 11 [] c = "c" -> 12 [] c = "d" -> 13
    [] c = "e" -> 14 [] c = "f" -> 15 [] OTHER -> -1
\* the topic is itag/<hex>/<leaf>, hex being two lowercase hexadecimal digits per
\* byte of the id, in byte order
IsTopicOf(topic, device_id, leaf) ==
  /\ Len(topic) = 5 + 2 * Len(device_id) + 1 + Len(leaf)
  /\ SubSeq(topic, 1, 5) = <<"i", "t", "a", "g", "/">>
  /\ \A k \in 1..Len(device_id) :
       /\ HexValue(topic[5 + 2 * k - 1]) >= 0
       /\ HexValue(topic[5 + 2 * k]) >= 0
       /\ 16 * HexValue(topic[5 + 2 * k - 1]) + HexValue(topic[5 + 2 * k]) = device_id[k]
  /\ SubSeq(topic, 5 + 2 * Len(device_id) + 1, Len(topic)) = <<"/">> \o leaf

\* C17: publish_device renders a 6-byte device id as exactly 12 lowercase
\* hexadecimal characters, two zero-padded digits per byte in byte order, in the
\* topics itag/<hex>/presence and itag/<hex>/button/click; 1a:02:ff:00:b3:0c
\* gives itag/1a02ff00b30c/presence; distinct ids give distinct topics
C17_Topics ==
  topics # << >> =>
    /\ \A i \in 1..2 :
         /\ Len(device_ids[i]) = 6
         /\ Len(device_id_str(device_ids[i])) = 12
         /\ IsTopicOf(topics[i][1], device_ids[i], <<"p", "r", "e", "s", "e", "n", "c", "e">>)
         /\ IsTopicOf(topics[i][2], device_ids[i],
                      <<"b", "u", "t", "t", "o", "n", "/", "c", "l", "i", "c", "k">>)
         /\ device_ids[i] = <<26, 2, 255, 0, 179, 12>> =>
              topics[i][1] = <<"i", "t", "a", "g", "/", "1", "a", "0", "2", "f", "f", "0", "0",
                               "b", "3", "0", "c", "/", "p", "r", "e", "s", "e", "n", "c", "e">>
    /\ device_ids[1] # device_ids[2] =>
         {topics[1][1], topics[1][2]} \cap {topics[2][1], topics[2][2]} = {}

\* the topics of 1a:02:ff:00:b3:0c and of another id have been formatted
C17_Witness ==
  /\ topics # << >>
  /\ device_ids[1] = <<26, 2, 255, 0, 179, 12>>
  /\ device_ids[2] = <<1, 16, 1, 16, 16, 1>>

\* C18: when the actor has handled a message of any type, if the stabilized flag
\* is set, the active-session flag is clear (SessionExited clears it) and some
\* entry of the map is read with a value, the same step sets the active-session
\* flag and spawns exactly one session, on the adapter chosen; otherwise the step
\* spawns none and leaves the flag as the message left it; and no step between
\* two messages changes the flag or spawns a session
C18_SpawnOnArbitration ==
  [][\A d \in DeviceAddrs :
       IF Handles(d)
         THEN LET active == has_button_monitor[d] /\ Head(mailbox[d]).type # "ButtonMonitorExit"
              IN  IF stabilized'[d] /\ ~active
                    THEN /\ arb'.dev = d
                         /\ arb'.event = Head(mailbox[d])
                         /\ IF SomeReadable(d)
                              THEN /\ has_button_monitor'[d]
                                   /\ sessions'[d] = Append(sessions[d], NewSession(
                                         discovered_on_adapter'[d][arb'.best]))
                              ELSE /\ ~has_button_monitor'[d]
                                   /\ sessions'[d] = sessions[d]
                    ELSE /\ arb' = NoArb
                         /\ has_button_monitor'[d] = active
                         /\ sessions'[d] = sessions[d]
         ELSE /\ has_button_monitor'[d] = has_button_monitor[d]
              /\ ~Spawns(d)]_vars

\* the step that handled a Discovered message, after stabilization and with no
\* session active, spawned a session on the adapter just discovered
C18_Witness ==
  /\ arb.dev # NoAddr
  /\ arb.event.type = "DeviceDiscovered"
  /\ arb.best = arb.event.adapter_address
  /\ has_button_monitor[arb.dev]
  /\ Len(sessions[arb.dev]) = 1
  /\ sessions[arb.dev][1] = NewSession(arb.event.device)

\* C19: while a session is active, handling Discovered or Lost changes only the
\* visibility map and handling Stabilized only the stabilized flag: the
\* active-session flag stays set and the running session is neither ended nor
\* replaced, whichever adapter is lost; only SessionExited clears the flag, and a
\* session leaves only by returning and sending its exit message
C19_SessionUndisturbed ==
  [][\A d \in DeviceAddrs :
       /\ (has_button_monitor[d] /\ Handles(d)
             /\ Head(mailbox[d]).type \in {"DeviceDiscovered", "DeviceLost", "Stabilized"}) =>
            /\ has_button_monitor'[d]
            /\ sessions' = sessions
            /\ arb' = NoArb
            /\ published' = << >>
            /\ IF Head(mailbox[d]).type = "Stabilized"
                 THEN stabilized'[d] /\ discovered_on_adapter'[d] = discovered_on_adapter[d]
                 ELSE stabilized'[d] = stabilized[d]
            /\ UNCHANGED << actors, created, actor_pc, timer >>
       /\ (has_button_monitor[d] /\ ~has_button_monitor'[d]) =>
            HandlesType(d, "ButtonMonitorExit")
       /\ Len(sessions'[d]) < Len(sessions[d]) =>
            \E i \in 1..Len(sessions[d]) :
              /\ sessions[d][i].pc = "returned"
              /\ sessions'[d] = RemoveAt(sessions[d], i)
              /\ Len(mailbox'[d]) = Len(mailbox[d]) + 1
              /\ mailbox'[d][Len(mailbox'[d])].type = "ButtonMonitorExit"
       /\ Len(sessions'[d]) = Len(sessions[d]) =>
            \A i \in 1..Len(sessions[d]) : sessions'[d][i].device = sessions[d][i].device]_vars

\* the session bound to hci0 is still in its loop after the actor has handled
\* the Lost of hci0: the map is empty and the flag still set
C19_Witness ==
  \E d \in DeviceAddrs :
    /\ has_button_monitor[d]
    /\ Len(sessions[d]) = 1
    /\ sessions[d][1].pc = "loop"
    /\ sessions[d][1].device.adapter_address = "A0"
    /\ Keys(discovered_on_adapter[d]) = {}
    /\ reported[d] = {}
    /\ mailbox[d] = << >>

\* C20: for every device the non-retained publish requests form repetitions of
\* one present record, any number of (click=true, click=false) pairs, one absent
\* record. Read by what precedes each request for the same device: a request
\* (present, no click) either opens a bracket, after the retained or an absent
\* record, or releases the click=true before it; click=true and absent come only
\* after a (present, no click) request; (absent, click) is never published
C20_PublishGrammar ==
  [][\A i \in 1..Len(published') :
       LET call == published'[i]
           prev == Previous(i)
           opened == prev.device_id = call.device_id /\ ~prev.retained
                       /\ prev.is_present /\ ~prev.is_button_clicked
       IN  ~call.retained =>
             CASE call.is_present /\ ~call.is_button_clicked ->
                    /\ prev.device_id = call.device_id
                    /\ \/ ~prev.is_present /\ ~prev.is_button_clicked
                       \/ ~prev.retained /\ prev.is_present /\ prev.is_button_clicked
               [] call.is_present /\ call.is_button_clicked -> opened
               [] ~call.is_present /\ ~call.is_button_clicked -> opened
               [] OTHER -> FALSE]_vars

\* a bracket is closed: the absent record is the latest publish of the device,
\* its session has gone and its exit message has been handled
C20_Witness ==
  \E d \in DeviceAddrs :
    /\ last_published[d] = PublishCall(d, FALSE, FALSE, FALSE)
    /\ sessions[d] = << >>
    /\ ~has_button_monitor[d]
    /\ stabilized[d]
    /\ mailbox[d] = << >>


\* C21: the processing loop of a device actor never returns and its channel is
\* never closed: recv() never gives None, because a clone of the actor, and so
\* the sender, is alive as long as the actor exists; hence no send of a poller,
\* of the timer task or of a session task fails, and none panics at its unwrap
C21_MailboxNeverClosed ==
  /\ \A d \in DeviceAddrs :
       /\ ~Closed(d)
       /\ SendOk(d)
       /\ actor_pc[d] # "none" =>
            ActorRefs(d) >= 1 /\ Recv(mailbox[d], ActorRefs(d)) # "None"
  /\ ~observed.panic

\* the loop waits on an empty channel, with the timer task and every session task
\* gone, after it has handled a Discovered, a Stabilized, a SessionExited and a
\* Lost message: a session ran to its absent publish, and the map is empty again
C21_Witness ==
  \E d \in DeviceAddrs :
    /\ actor_pc[d] = "loop"
    /\ Recv(mailbox[d], ActorRefs(d)) = "Pending"
    /\ timer[d] = -1
    /\ sessions[d] = << >>
    /\ stabilized[d]
    /\ ~has_button_monitor[d]
    /\ last_published[d] = AbsentPublish(d)
    /\ Keys(discovered_on_adapter[d]) = {}


\* the latest step ran d's arbitration over a map that was not empty, and every
\* read of the signal strength failed
AllReadsFailed(d) ==
  /\ arb.dev = d
  /\ arb.best = NoAddr
  /\ \E a \in AdapterAddrs : arb.reads[a] # NotRead

\* C22: when the runtime lets the timer task and the loop run, an actor that is
\* not stabilized yet and whose device has been reported discovered by some
\* adapter gets a session: the loop spawns one once it has handled Stabilized,
\* with no step of a poller needed for it, unless before that the device was
\* reported lost on every adapter, or an arbitration found no adapter whose
\* signal strength it could read
C22_SpawnAfterStabilized ==
  \A d \in DeviceAddrs :
    (actor_pc[d] # "none" /\ ~stabilized[d] /\ reported[d] # {})
      ~> \/ stabilized[d] /\ has_button_monitor[d]
         \/ reported[d] = {}
         \/ AllReadsFailed(d)

\* the step that handled Stabilized ran the arbitration and spawned the session
C22_Witness ==
  \E d \in DeviceAddrs :
    /\ arb.dev = d
    /\ arb.event.type = "Stabilized"
    /\ arb.best \in reported[d]
    /\ stabilized[d]
    /\ has_button_monitor[d]
    /\ Len(sessions[d]) = 1
    /\ mailbox[d] = << >>

====
